---- MODULE Spec2Model ----
(***************************************************************************)
(* Model of fluffy.js (Sennep/FluffyBall): the shared settings record      *)
(* `data`, the Parameter Generator createDefaults, createMesh, the pointer *)
(* handlers onMouseDown / onMouseMove / onMouseUp, the dat.GUI handlers    *)
(* and the resize / render callbacks of the sketch.                        *)
(*                                                                         *)
(* Numbers.  JavaScript numbers are modelled as exact fixed-point values:  *)
(* impulse, pointer coordinates and angles are integers in units of        *)
(* 1/SCALE; spikeDetail and spikeLength are integers in hundredths (the    *)
(* slider step).  With SCALE = 10^7 the products by 0.5, 0.9 and the       *)
(* constant 0.003 are exact for the runs explored (Exact below states it).  *)
(* Handlers run to completion on one thread, so each is one action.        *)
(***************************************************************************)
EXTENDS Integers, Sequences, FiniteSets, TLC

\* ---------------------------------------------------------------- bounds
\* frames rendered and drag moves handled in a run of SpecInput and SpecGui
MaxFrames == 3
MaxMoves == 2
\* the same for Spec, where pointer, GUI and frame events all interleave
AllFrames == 2
AllMoves == 1

\* ------------------------------------------------------------- constants
SCALE == 10^7
\* Math.PI in units of 1/SCALE
PI == 31415926
\* 0.003, the base spin on the Y axis, in units of 1/SCALE
BaseSpin == (3 * SCALE) \div 1000
\* nice-color-palettes exports 100 palettes
PaletteCount == 100

colorSeeds == <<495948, 234144, 382666, 946739, 253862, 729250, 12290, 958027, 277064, 339463>>
spikeSeeds == <<614884, 383036, 191802, 967721, 384540, 111465>>
spikeLengthSeeds == <<533299, 122798>>

\* random.range(1.35, 40) and random.range(1.0, 1.4), in hundredths
spikeDetailRange == <<135, 4000>>
spikeLengthRange == <<100, 140>>

\* gui.add(data, "spikeDetail", 1, 50, 0.01) and gui.add(data, "spikeLength", 1, 1.5, 0.01)
DetailSlider == <<100, 5000>>
SizeSlider == <<100, 150>>

\* values a user drags the sliders to (raw, before the controller clamps them)
DetailInputs == {0, 6000}
SizeInputs == {50, 150}

\* viewport sizes the host reports
Viewports == {<<40, 20>>, <<20, 40>>}

\* outcomes of Math.random() in thousandths: the first and the last entry of each pool
RandomOutcomes == {0, 900}

VARIABLES data, rng, mesh, scene, built, generated, pickStates,
          isMouseDown, mouseList, currentImpulse, rotation, dragPoint,
          window, camera, frames, moves

vars == <<data, rng, mesh, scene, built, generated, pickStates,
          isMouseDown, mouseList, currentImpulse, rotation, dragPoint,
          window, camera, frames, moves>>

Last(s) == s[Len(s)]

\* --------------------------------------------- canvas-sketch-util/random
\* The generator is unseeded (seed 0: Math.random) or a deterministic stream
\* identified by its seed and the number of values drawn from it so far.
Unseeded == [seed |-> 0, pos |-> 0]

setSeed(s) == [seed |-> s, pos |-> 0]

\* the next value of the stream in thousandths of [0,1); u is what Math.random gives
value(r, u) == IF r.seed = 0 THEN u ELSE (r.seed + 7919 * r.pos) % 1000

advance(r) == IF r.seed = 0 THEN r ELSE [r EXCEPT !.pos = @ + 1]

\* random.pick(array): array[floor(value * length)]
pick(r, array, u) == array[((value(r, u) * Len(array)) \div 1000) + 1]

\* random.range(min, max) = min + value * (max - min)
range(r, lohi, u) == lohi[1] + (value(r, u) * (lohi[2] - lohi[1])) \div 1000

\* random.pick(palettes): the index of the palette picked
pickPalette(r, u) == ((value(r, u) * PaletteCount) \div 1000) + 1

\* ------------------------------------------------------ createDefaults
\* W is the part of the program state createDefaults and createMesh work on:
\* [data, rng, mesh, scene, built, generated, pickStates]; built and generated count
\* the calls of createMesh and createDefaults made by the handler that is running.  u[1..3] are the
\* Math.random outcomes available to the three seed picks.  pickStates records
\* the seed the generator had when each of the three seed picks was drawn.
createDefaults(W, u) ==
  LET r0 == W.rng
      s1 == pick(r0, spikeSeeds, u[1])
      r1 == setSeed(s1)
      detail == range(r1, spikeDetailRange, 0)
      r2 == setSeed(0)
      s2 == pick(r2, spikeLengthSeeds, u[2])
      r3 == setSeed(s2)
      length == range(r3, spikeLengthRange, 0)
      r4 == setSeed(0)
      s3 == pick(r4, colorSeeds, u[3])
      r5 == setSeed(s3)
      pal == pickPalette(r5, 0)
  IN [W EXCEPT !.data.spikeDetail = detail,
               !.data.spikeLength = length,
               !.data.palette = pal,
               !.rng = advance(r5),
               !.generated = @ + 1,
               !.pickStates = <<r0.seed, r2.seed, r4.seed>>]

\* ---------------------------------------------------------- createMesh
NoMesh == [id |-> 0]

\* the old mesh is left in the scene
sceneNotRemoved(sc, m) == sc

\* scene.remove(mesh) when a mesh exists
sceneAfterRemove(sc, m) == IF m.id # 0 THEN sc \ {m.id} ELSE sc

\* new THREE.Mesh(geometry, new THREE.ShaderMaterial({... uniforms ...})).
\* u_impulse is "own" for the fresh Vector2 of line 164 and "currentImpulse"
\* once render has stored the reference to currentImpulse in it.
newMesh(id, d) ==
  [id |-> id,
   u_time |-> 0,
   u_colorA |-> <<d.palette, 0>>,
   u_colorB |-> <<d.palette, 3>>,
   u_impulse |-> "own",
   u_spikeCount |-> d.spikeDetail,
   u_spikeLength |-> d.spikeLength,
   u_sceneRotationY |-> 0]

\* the identity of a newly allocated object: one no live object has
freshId(sc, m) == CHOOSE i \in 1..(Cardinality(sc) + 2) : i \notin sc \cup {m.id}

createMesh(W, reset, u) ==
  LET sc == sceneAfterRemove(W.scene, W.mesh)
      W1 == IF reset THEN createDefaults(W, u) ELSE W
      m == newMesh(freshId(W.scene, W.mesh), W1.data)
  IN [W1 EXCEPT !.mesh = m,
                !.scene = sc \cup {m.id},
                !.built = @ + 1]

\* ------------------------------------------------------ program state
data0 == [shouldUpdate |-> FALSE, shouldReset |-> FALSE, palette |-> 0,
          spikeLength |-> 100, spikeDetail |-> 0]

W0 == [data |-> data0, rng |-> Unseeded, mesh |-> NoMesh, scene |-> {},
       built |-> 0, generated |-> 0, pickStates |-> <<0, 0, 0>>]

world == [data |-> data, rng |-> rng, mesh |-> mesh, scene |-> scene,
          built |-> 0, generated |-> 0, pickStates |-> pickStates]

setWorld(W) ==
  /\ data' = W.data
  /\ rng' = W.rng
  /\ mesh' = W.mesh
  /\ scene' = W.scene
  /\ built' = W.built
  /\ generated' = W.generated
  /\ pickStates' = W.pickStates

\* the Math.random outcomes a run of createDefaults can consume with generator r
Outcomes(r) ==
  {<<a, b, c>> : a \in (IF r.seed = 0 THEN RandomOutcomes ELSE {0}),
                 b \in RandomOutcomes, c \in RandomOutcomes}

\* --------------------------------------------------------- interaction
\* pointer events the window can deliver: mouse events carry clientX/clientY and
\* no touches; touch events carry touches[0].pageX/pageY (clientX is undefined, -1)
\* pointer positions in pixels: the centre, a twentieth of the width right of
\* it, the top centre and the bottom centre of the window
Pixels(win) ==
  {<<win.innerWidth \div 2, win.innerHeight \div 2>>,
   <<(win.innerWidth * 11) \div 20, win.innerHeight \div 2>>,
   <<win.innerWidth \div 2, 0>>,
   <<win.innerWidth \div 2, win.innerHeight>>}

PointerEvents(win) ==
  {[clientX |-> q[1], clientY |-> q[2], touches |-> <<>>] : q \in Pixels(win)}
  \cup
  {[clientX |-> -1, clientY |-> -1, touches |-> <<[pageX |-> q[1], pageY |-> q[2]]>>] :
      q \in Pixels(win)}

\* normalized pointer coordinates in units of 1/SCALE
getInputPosition(e, win) ==
  LET touch == Len(e.touches) > 0
      eX == IF touch THEN e.touches[1].pageX ELSE e.clientX
      eY == IF touch THEN e.touches[1].pageY ELSE e.clientY
  IN << ((eX * SCALE) \div win.innerWidth) * 2 - SCALE,
        -(((eY * SCALE) \div win.innerHeight) * 2) + SCALE >>

\* JavaScript a % m for m > 0: the result has the sign of a
jsRem(a, m) == IF a >= 0 THEN a % m ELSE -((-a) % m)

\* ((scene.rotation.x + Math.PI / 2) / Math.PI) % 2 > 1 ? -1 : 1, both sides of
\* the comparison multiplied by 2 * Math.PI
direction(rx) == IF jsRem(2 * rx + PI, 4 * PI) > 2 * PI THEN -1 ELSE 1

\* mouseList.length > 0 ? mouseList[mouseList.length - 1] : new THREE.Vector2(x, y)
lastMouseOf(list, p) == IF Len(list) > 0 THEN Last(list) ELSE p

\* currentImpulse after one drag move from lastMouse to p
impulseAfterMove(imp, rx, lastMouse, p) ==
  << imp[1] + (direction(rx) * (p[1] - lastMouse[1])) \div 2,
     imp[2] - (p[2] - lastMouse[2]) \div 2 >>

\* the move handler without its isMouseDown test
moveAlways(down) == TRUE

\* the test of line 201
moveApplies(down) == down

\* the button-down position is not recorded
listAfterDownKeeps(list, p) == list

\* mouseList after onMouseDown at p
listAfterDown(list, p) == << p >>

onMouseMove(e, limit) ==
  /\ IF moveApplies(isMouseDown)
       THEN LET p == getInputPosition(e, window)
                lastMouse == lastMouseOf(mouseList, p)
            IN /\ moves < limit
               /\ moves' = moves + 1
               /\ mouseList' = Append(mouseList, p)
               /\ currentImpulse' = impulseAfterMove(currentImpulse, rotation[1], lastMouse, p)
               /\ dragPoint' = p
       ELSE UNCHANGED <<mouseList, currentImpulse, dragPoint, moves>>
  /\ UNCHANGED <<data, rng, mesh, scene, built, generated, pickStates,
                 isMouseDown, rotation, window, camera, frames>>

onMouseDown(e) ==
  /\ isMouseDown' = TRUE
  /\ mouseList' = listAfterDown(mouseList, getInputPosition(e, window))
  /\ dragPoint' = getInputPosition(e, window)
  /\ UNCHANGED <<data, rng, mesh, scene, built, generated, pickStates,
                 currentImpulse, rotation, window, camera, frames, moves>>

\* onMouseUp does not touch currentImpulse
impulseAfterUp(imp) == imp

onMouseUp ==
  /\ isMouseDown' = FALSE
  /\ currentImpulse' = impulseAfterUp(currentImpulse)
  /\ UNCHANGED <<data, rng, mesh, scene, built, generated, pickStates,
                 mouseList, rotation, dragPoint, window, camera, frames, moves>>

\* -------------------------------------------------------------- runtime
\* new THREE.OrthographicCamera() positioned at (2, 1.3, -4); lengths in hundredths
camera0 == [left |-> -100, right |-> 100, top |-> 100, bottom |-> -100,
            near |-> 10, far |-> 200000, position |-> <<200, 130, -400>>]

\* const zoom = aspect < 1 ? 2.5 : 1.5
zoomOf(w, h) == IF w < h THEN 250 ELSE 150

resize(w, h) ==
  LET zoom == zoomOf(w, h) IN
  /\ camera' = [left |-> -((zoom * w) \div h), right |-> (zoom * w) \div h,
                top |-> zoom, bottom |-> -zoom,
                near |-> -10000, far |-> 10000, position |-> <<0, 0, zoom>>]
  /\ window' = [innerWidth |-> w, innerHeight |-> h]
  /\ UNCHANGED <<data, rng, mesh, scene, built, generated, pickStates,
                 isMouseDown, mouseList, currentImpulse, rotation, dragPoint,
                 frames, moves>>

\* a decay by 0.8
decayWrongFactor(v) == (v * 8) \div 10

\* currentImpulse.x *= 0.9
decay(v) == (v * 9) \div 10

\* the pose advanced by the impulse before its decay
rotateBeforeDecay(imp, rot) ==
  [impulse |-> << (imp[1] * 9) \div 10, (imp[2] * 9) \div 10 >>,
   rotation |-> << rot[1] + imp[2], rot[2] + BaseSpin + imp[1] >>]

\* lines 274-277: the impulse decays, then the pose advances by the decayed impulse
rotate(imp, rot) ==
  LET i == << decay(imp[1]), decay(imp[2]) >>
  IN [impulse |-> i,
      rotation |-> << rot[1] + i[2], rot[2] + BaseSpin + i[1] >>]

\* the update branch also re-runs the Parameter Generator
rebuildRegeneratesTwice(W, u) ==
  LET shouldReset == W.data.shouldReset
      shouldUpdate == W.data.shouldUpdate
      W1 == IF shouldReset
              THEN createMesh([W EXCEPT !.data.shouldReset = FALSE,
                                        !.data.shouldUpdate = FALSE], TRUE, u)
              ELSE W
      W2 == IF shouldUpdate
              THEN createMesh([W1 EXCEPT !.data.shouldUpdate = FALSE], shouldReset, u)
              ELSE W1
  IN W2

\* lines 262-271: the flags are read once, then each branch clears and rebuilds
rebuild(W, u) ==
  LET shouldReset == W.data.shouldReset
      shouldUpdate == W.data.shouldUpdate
      W1 == IF shouldReset
              THEN createMesh([W EXCEPT !.data.shouldReset = FALSE,
                                        !.data.shouldUpdate = FALSE], TRUE, u)
              ELSE W
      W2 == IF shouldUpdate
              THEN createMesh([W1 EXCEPT !.data.shouldUpdate = FALSE], FALSE, u)
              ELSE W1
  IN W2

\* lines 280-282: the uniforms of the mesh that is drawn
withUniforms(m, time, rotY) ==
  [m EXCEPT !.u_time = time, !.u_impulse = "currentImpulse", !.u_sceneRotationY = rotY]

render(limit) ==
  /\ frames < limit
  /\ frames' = frames + 1
  /\ \E u \in (IF data.shouldReset THEN Outcomes(rng) ELSE {<<0, 0, 0>>}) :
       LET W == rebuild(world, u)
           r == rotate(currentImpulse, rotation)
       IN /\ setWorld([W EXCEPT !.mesh = withUniforms(W.mesh, frames + 1, r.rotation[2])])
          /\ currentImpulse' = r.impulse
          /\ rotation' = r.rotation
  /\ UNCHANGED <<isMouseDown, mouseList, dragPoint, window, camera,
                 moves>>

\* ------------------------------------------------------------- dat.GUI
\* a controller that stores the value as entered
clampNone(v, lohi) == v

\* NumberController.setValue keeps the value inside [min, max]
clamp(v, lohi) == IF v < lohi[1] THEN lohi[1] ELSE IF v > lohi[2] THEN lohi[2] ELSE v

gui ==
  UNCHANGED <<rng, mesh, scene, built, generated, pickStates,
                 isMouseDown, mouseList, currentImpulse, rotation, dragPoint,
                 window, camera, frames, moves>>

onDetailChange(v) ==
  /\ gui
  /\ data' = [data EXCEPT !.spikeDetail = clamp(v, DetailSlider), !.shouldUpdate = TRUE]

onSizeChange(v) ==
  /\ gui
  /\ data' = [data EXCEPT !.spikeLength = clamp(v, SizeSlider), !.shouldUpdate = TRUE]

onRegenerate ==
  /\ gui
  /\ data' = [data EXCEPT !.shouldReset = TRUE]

\* ---------------------------------------------------------------- Init
\* the state after the sketch function has run: createDefaults() (line 116),
\* createMesh() (line 173) and the initialisers of lines 133-142 and 180-182.
\* U is the set of Math.random outcomes the first createDefaults may meet.
startup(U) ==
  \E u \in U :
    LET W == createMesh(createDefaults(W0, u), FALSE, u) IN
    /\ data = W.data
    /\ rng = W.rng
    /\ mesh = W.mesh
    /\ scene = W.scene
    /\ built = W.built
    /\ generated = W.generated
    /\ pickStates = W.pickStates
    /\ isMouseDown = FALSE
    /\ mouseList = << <<SCALE, SCALE>> >>
    /\ currentImpulse = <<0, 0>>
    /\ rotation = <<0, 0>>
    /\ dragPoint = <<SCALE, SCALE>>
    /\ window = [innerWidth |-> 40, innerHeight |-> 20]
    /\ camera = camera0
    /\ frames = 0
    /\ moves = 0

Init == startup(Outcomes(Unseeded))

\* the start-up in which Math.random gave 0.9 to each of the three seed picks
InitOne == startup({<<900, 900, 900>>})

\* the pointer positions and slider values of Spec: right of the centre, and
\* the top centre
AllPointerEvents(win) ==
  {e \in PointerEvents(win) :
     getInputPosition(e, win)[1] > 0 \/ getInputPosition(e, win)[2] > 0}

AllViewports == {<<20, 40>>}
AllDetailInputs == {6000}

\* pointer events and frames, the GUI left alone
NextInput ==
  \/ \E e \in PointerEvents(window) : onMouseMove(e, MaxMoves)
  \/ \E e \in PointerEvents(window) : onMouseDown(e)
  \/ onMouseUp
  \/ render(MaxFrames)

SpecInput == InitOne /\ [][NextInput]_vars

\* GUI events, resizes and frames, the pointer left alone
NextGui ==
  \/ \E v \in Viewports : resize(v[1], v[2])
  \/ render(MaxFrames)
  \/ \E v \in DetailInputs : onDetailChange(v)
  \/ \E v \in SizeInputs : onSizeChange(v)
  \/ onRegenerate

SpecGui == Init /\ [][NextGui]_vars

\* pointer, GUI, resize and frame events interleaved (the Size slider, which
\* takes the same path as the Detail slider, is exercised in SpecGui)
Next ==
  \/ \E e \in AllPointerEvents(window) : onMouseMove(e, AllMoves)
  \/ \E e \in AllPointerEvents(window) : onMouseDown(e)
  \/ onMouseUp
  \/ \E v \in AllViewports : resize(v[1], v[2])
  \/ render(AllFrames)
  \/ \E v \in AllDetailInputs : onDetailChange(v)
  \/ onRegenerate

Spec == InitOne /\ [][Next]_vars

\* the fixed-point arithmetic is exact wherever a frame can still be rendered
Exact ==
  frames < MaxFrames =>
    /\ (currentImpulse[1] * 9) % 10 = 0
    /\ (currentImpulse[2] * 9) % 10 = 0

Abs(v) == IF v < 0 THEN -v ELSE v

\* a step that handles a pointer move while Dragging / that renders a frame
DragMoveStep == isMouseDown /\ moves' = moves + 1
FrameStep == frames' = frames + 1

\* ------------------------------------------------------------------ C1
\* C1: every pointer move handled while Dragging changes the impulse by exactly
\* x += direction * (x - anchor.x) * 0.5 and y -= (y - anchor.y) * 0.5, where the
\* anchor is the most recent point of the current drag (dragPoint: the
\* button-down position or the previous move of this drag), and then (x, y) is
\* the last stored point.  From impulse (0,0) and rotationX = 0, a button-down
\* at (0,0) and one move to (0.1,0) give impulse (0.05, 0).
C1_DragMove ==
  [][DragMoveStep =>
       LET p == dragPoint'
           anchor == dragPoint
       IN /\ 2 * (currentImpulse'[1] - currentImpulse[1])
               = direction(rotation[1]) * (p[1] - anchor[1])
          /\ 2 * (currentImpulse'[2] - currentImpulse[2]) = -(p[2] - anchor[2])
          /\ Last(mouseList') = p
          /\ (currentImpulse = <<0, 0>> /\ rotation[1] = 0 /\ anchor = <<0, 0>>
              /\ p = <<SCALE \div 10, 0>>)
               => currentImpulse' = <<SCALE \div 20, 0>>]_vars

\* a second drag, started away from where the first ended, has moved
C1_Witness ==
  /\ isMouseDown
  /\ moves = 2
  /\ Len(mouseList) = 2
  /\ mouseList[1] = <<0, 0>>
  /\ mouseList[2] = <<SCALE \div 10, 0>>
  /\ currentImpulse[2] # 0

\* ------------------------------------------------------------------ C2
\* C2: a rendered frame multiplies both impulse components by exactly 0.9, so a
\* non-zero component stays non-zero and strictly shrinks in magnitude; and a
\* step that is neither a frame nor a drag move leaves the impulse as it is
\* (nothing but the decay takes the impulse back towards zero).
C2_Decay ==
  [][/\ FrameStep =>
          \A i \in 1..2 :
            /\ 10 * currentImpulse'[i] = 9 * currentImpulse[i]
            /\ currentImpulse[i] # 0 =>
                 /\ currentImpulse'[i] # 0
                 /\ Abs(currentImpulse'[i]) < Abs(currentImpulse[i])
     /\ (frames' = frames /\ moves' = moves) => currentImpulse' = currentImpulse]_vars

\* three idle frames after a drag that left impulse (0.05, -0.5): 0.9^3 of it
C2_Witness ==
  /\ frames = 3
  /\ moves = 2
  /\ currentImpulse = <<729 * (SCALE \div 20000), -(729 * (SCALE \div 2000))>>

\* ------------------------------------------------------------------ C8
\* C8: input changes the impulse only while Dragging.  While Idle no pointer
\* event changes the impulse or the pose, and a move leaves the stored points
\* alone; a button-up or button-down while Dragging changes neither the impulse
\* nor the pose.
C8_InputOnlyWhileDragging ==
  [][/\ (frames' = frames /\ ~isMouseDown) =>
          /\ currentImpulse' = currentImpulse
          /\ rotation' = rotation
          /\ ~isMouseDown' => (mouseList' = mouseList /\ moves' = moves)
     /\ (frames' = frames /\ isMouseDown /\ (~isMouseDown' \/ moves' = moves)) =>
          /\ currentImpulse' = currentImpulse
          /\ rotation' = rotation]_vars

\* released after a drag, the impulse still what the drag left
C8_Witness ==
  /\ ~isMouseDown
  /\ moves > 0
  /\ frames = 0
  /\ currentImpulse # <<0, 0>>

\* ------------------------------------------------------------------ C9
\* C9: the input tracker stores at most one pointer coordinate
C9_AtMostOnePoint == Len(mouseList) <= 1

\* ------------------------------------------------------------------ C5
\* the direction C5 describes: -1 when rotationX modulo 2 pi lies strictly
\* between pi/2 and 3 pi/2 (compared after doubling), +1 otherwise
upsideDownDirection(rx) ==
  LET m == (2 * rx) % (4 * PI) IN IF m > PI /\ m < 3 * PI THEN -1 ELSE 1

\* C5: for every reachable rotationX, positive or negative, a drag move uses
\* direction -1 exactly when rotationX modulo 2 pi is strictly between pi/2 and
\* 3 pi/2; at rotationX = 0 it uses +1 and at pi it uses -1.
C5_DirectionFollowsPose ==
  [][DragMoveStep =>
       2 * (currentImpulse'[1] - currentImpulse[1])
         = upsideDownDirection(rotation[1]) * (dragPoint'[1] - dragPoint[1])]_vars

\* ------------------------------------------------------------------ C3
\* C3: a frame that starts with shouldUpdate or shouldReset set replaces the
\* mesh before drawing and ends with both flags false; a frame that starts
\* with both false builds no mesh.  A frame that starts with shouldReset set
\* runs the Parameter Generator exactly once (also with shouldUpdate set), a
\* frame that starts without it does not run it.  A request waits for a frame:
\* no other step clears a flag or builds a mesh.
C3_RebuildOnNextFrame ==
  [][/\ FrameStep =>
          /\ ~data'.shouldReset /\ ~data'.shouldUpdate
          /\ (data.shouldReset \/ data.shouldUpdate) =>
               /\ built' >= 1
               /\ mesh'.u_spikeCount = data'.spikeDetail
               /\ mesh'.u_spikeLength = data'.spikeLength
          /\ (~data.shouldReset /\ ~data.shouldUpdate) =>
               /\ built' = 0
               /\ mesh'.id = mesh.id
               /\ mesh'.u_spikeCount = mesh.u_spikeCount
               /\ mesh'.u_spikeLength = mesh.u_spikeLength
               /\ mesh'.u_colorA = mesh.u_colorA
          /\ generated' = (IF data.shouldReset THEN 1 ELSE 0)
     /\ frames' = frames =>
          /\ mesh' = mesh
          /\ data.shouldReset => data'.shouldReset
          /\ data.shouldUpdate => data'.shouldUpdate]_vars

\* a frame that started with both flags set has run: two builds, one generation
C3_Witness ==
  /\ frames > 0
  /\ built = 2
  /\ generated = 1
  /\ ~data.shouldReset
  /\ ~data.shouldUpdate

\* ------------------------------------------------------------------ C6
\* C6: in every run of the Parameter Generator each of the three seed picks is
\* drawn while the generator is unseeded
C6_PicksUnseeded == pickStates = <<0, 0, 0>>

\* ------------------------------------------------------------------ C7
\* C7: every mesh is built with 1 <= spikeDetail <= 50 and 1.0 <= spikeLength
\* <= 1.5 (hundredths), so u_spikeLength is never zero
C7_MeshRanges ==
  /\ mesh.u_spikeCount >= 100
  /\ mesh.u_spikeCount <= 5000
  /\ mesh.u_spikeLength >= 100
  /\ mesh.u_spikeLength <= 150
  /\ mesh.u_spikeLength # 0

\* a mesh built from slider values at the ends of both ranges
C7_Witness ==
  /\ frames > 0
  /\ built = 1
  /\ mesh.u_spikeCount = 100
  /\ mesh.u_spikeLength = 150

\* ------------------------------------------------------------------ C4
\* the impulse the u_impulse uniform of mesh m holds
uImpulse(m, imp) == IF m.u_impulse = "currentImpulse" THEN imp ELSE <<0, 0>>

\* C4: at every draw the scene holds exactly one mesh, the current one, and its
\* baked u_spikeCount, u_spikeLength and palette colours 0 and 3 are those of
\* the current data.spikeDetail, data.spikeLength and data.palette
C4_DrawnMeshCurrent ==
  [][FrameStep =>
       /\ scene' = {mesh'.id}
       /\ Cardinality(scene') = 1
       /\ mesh'.u_spikeCount = data'.spikeDetail
       /\ mesh'.u_spikeLength = data'.spikeLength
       /\ mesh'.u_colorA = <<data'.palette, 0>>
       /\ mesh'.u_colorB = <<data'.palette, 3>>]_vars

\* a frame drew a mesh rebuilt after a slider change, during a drag
C4_Witness ==
  /\ frames > 0
  /\ built = 1
  /\ moves > 0
  /\ mesh.u_spikeCount = 5000
  /\ data.spikeDetail = 5000
  /\ scene = {mesh.id}

\* ----------------------------------------------------------------- C10
\* C10: a frame first decays the impulse by 0.9 and then advances the pose by
\* rotationY += 0.003 + impulse.x and rotationX += impulse.y with the decayed
\* impulse; no other step changes the pose; with impulse (0,0) rotationX stays
\* and rotationY grows by exactly 0.003; and the u_impulse and
\* u_sceneRotationY of the mesh drawn are the impulse and rotationY after the
\* update, also when the frame has rebuilt the mesh.
C10_FramePose ==
  [][/\ FrameStep =>
          /\ 10 * currentImpulse'[1] = 9 * currentImpulse[1]
          /\ 10 * currentImpulse'[2] = 9 * currentImpulse[2]
          /\ rotation'[2] = rotation[2] + BaseSpin + currentImpulse'[1]
          /\ rotation'[1] = rotation[1] + currentImpulse'[2]
          /\ currentImpulse = <<0, 0>> =>
               rotation' = <<rotation[1], rotation[2] + (3 * SCALE) \div 1000>>
          /\ uImpulse(mesh', currentImpulse') = currentImpulse'
          /\ mesh'.u_sceneRotationY = rotation'[2]
     /\ frames' = frames => rotation' = rotation]_vars

\* a frame that rebuilt the mesh has drawn it with a non-zero impulse
C10_Witness ==
  /\ frames > 0
  /\ built >= 1
  /\ currentImpulse[1] # 0
  /\ currentImpulse[2] # 0
  /\ uImpulse(mesh, currentImpulse) = currentImpulse
  /\ mesh.u_sceneRotationY = rotation[2]

====
